---- MODULE Spec2Model ----
(***************************************************************************)
(* A model of fwtools/parsecoff.py: the COFF container parser (Coff), its  *)
(* accessors sectiondata and symboldata, and the module-level extraction   *)
(* driver.  The input file is a sequence of bytes (0..255); every record   *)
(* is decoded from those bytes exactly as struct.unpack does with the      *)
(* little-endian layouts of the source.                                    *)
(*                                                                         *)
(* 32-bit fields do not fit TLC's integers (0xffffffff > 2^31 - 1), and    *)
(* Python's integers are unbounded, so every 32-bit quantity and every     *)
(* file position is a "wide" integer [hi, lo] standing for                 *)
(* hi * 65536 + lo with lo in 0..65535 and hi any integer.                 *)
(***************************************************************************)
EXTENDS Integers, Sequences, FiniteSets

VARIABLES
  file,     \* the bytes of the input file (sys.argv[1]) on disk
  cache,    \* its bytes when self.f was opened, which the buffer of the
            \* file object may still hold
  inkey,    \* the output file that is the input file itself, None when the
            \* input is no file the driver opens
  cursor,   \* position of the file object self.f (wide)
  pc,       \* where the program is
  err,      \* the exception that ended the run, "" when none
  filehdr,  \* self.filehdr
  opthdr,   \* self.opthdr
  sechdr,   \* self.sechdr
  rsi,      \* index of the current entry of relocsecs
  rcur,     \* relocation entries read so far for the current entry
  reloc,    \* self.reloc
  symbols,  \* self.symbols
  baseoff,  \* baseoff of the string-table scan (wide)
  nstrs,    \* nstrs, the 4-byte length of the string table (wide)
  strings,  \* self.strings
  call,     \* the last accessor call made on the parsed container
  ret,      \* what that call did: its seek, its read request, its result
  queue,    \* the driver's sorted symbols not yet processed
  idx,      \* the driver's placeholder counter
  out,      \* the driver's progress: one record per symbol it named
  sink      \* the files the driver wrote: file -> bytes

vars == <<file, cache, inkey, cursor, pc, err, filehdr, opthdr, sechdr, rsi, rcur, reloc,
          symbols, baseoff, nstrs, strings, call, ret, queue, idx, out, sink>>

\* Python's None.  Names are sequences of bytes (0..255), so None is a
\* sequence no name is equal to.
None == <<-1>>

(***************************************************************************)
(* Wide integers                                                           *)
(***************************************************************************)
WNorm(h, l) == [hi |-> h + (l \div 65536), lo |-> l % 65536]

WInt(n) == WNorm(0, n)

WAdd(a, b) == WNorm(a.hi + b.hi, a.lo + b.lo)

WSub(a, b) == WNorm(a.hi - b.hi, a.lo - b.lo)

WLess(a, b) == a.hi < b.hi \/ (a.hi = b.hi /\ a.lo < b.lo)

WLeq(a, b) == a = b \/ WLess(a, b)

W0 == WInt(0)

\* the value of a wide integer known to be small
WSmall(a) == a.hi * 65536 + a.lo

Min(a, b) == IF a < b THEN a ELSE b

(***************************************************************************)
(* The file object: read(n) from a position, short at end of file          *)
(***************************************************************************)
\* the bytes f.read(n) returns with the file position at pos
\* (a negative n reads to the end of the file)
ReadBytes(f, pos, n) ==
  IF WLeq(WInt(Len(f)), pos) \/ n = W0
  THEN <<>>
  ELSE LET start == WSmall(pos)
           avail == Len(f) - start
           cnt   == IF WLess(n, W0) \/ WLess(WInt(avail), n)
                    THEN avail ELSE WSmall(n)
       IN  SubSeq(f, start + 1, start + cnt)

\* the file position after reading the bytes got
Advance(pos, got) == WAdd(pos, WInt(Len(got)))

\* read(n) allocates a buffer of n bytes before it reads: once n is large,
\* whether that succeeds depends on the host's memory, and a 32-bit build
\* refuses a size that is no C long.  The sizes of readstruct (at most 48)
\* are always served.
ReadOutcomes(n) ==
  IF n.hi <= 0 THEN {"ok"}
  ELSE IF n.hi < 32768 THEN {"ok", "MemoryError"}
       ELSE {"ok", "MemoryError", "OverflowError"}

\* f.read(n) after a seek to pos, for every content the file object may see
\* (views): what it raises ("ok" for nothing), the bytes it returns and the
\* position it leaves, which is still pos when it raises
Read(views, pos, n) ==
  {[err |-> o,
    data |-> IF o = "ok" THEN ReadBytes(f, pos, n) ELSE <<>>,
    pos |-> IF o = "ok" THEN Advance(pos, ReadBytes(f, pos, n)) ELSE pos] :
     f \in views, o \in ReadOutcomes(n)}

(***************************************************************************)
(* struct.unpack with the layouts of the source                            *)
(***************************************************************************)
U8(b, i) == b[i]

U16(b, i) == b[i] + 256 * b[i + 1]

U32(b, i) == [hi |-> U16(b, i + 2), lo |-> U16(b, i)]

\* str.rstrip('\x00')
RECURSIVE RStrip(_)
RStrip(s) ==
  IF s = <<>> THEN <<>>
  ELSE IF s[Len(s)] = 0 THEN RStrip(SubSeq(s, 1, Len(s) - 1)) ELSE s

FileHdrLen == 22
OptHdrLen == 28
SecHdrLen == 48
RelocHdrLen == 12
SymentHdrLen == 18

FileHdr(b) ==
  [magic |-> U16(b, 1), nscns |-> U16(b, 3), timdat |-> U32(b, 5),
   symptr |-> U32(b, 9), nsyms |-> U32(b, 13), opthdr |-> U16(b, 17),
   flags |-> U16(b, 19), target_id |-> U16(b, 21)]

OptHdr(b) ==
  [magic |-> U16(b, 1), vstamp |-> U16(b, 3), tsize |-> U32(b, 5),
   dsize |-> U32(b, 9), bsize |-> U32(b, 13), entry |-> U32(b, 17),
   text_start |-> U32(b, 21), data_start |-> U32(b, 25)]

SecHdr(b) ==
  [orig_name |-> SubSeq(b, 1, 8), paddr |-> U32(b, 9), vaddr |-> U32(b, 13),
   size |-> U32(b, 17), scnptr |-> U32(b, 21), relptr |-> U32(b, 25),
   lnnoptr |-> U32(b, 29), nreloc |-> U32(b, 33), nlnno |-> U32(b, 37),
   flags |-> U32(b, 41), reserved |-> U16(b, 45), page |-> U16(b, 47)]

RelocHdr(b) ==
  [vaddr |-> U32(b, 1), symndx |-> U32(b, 5), reserved |-> U16(b, 9),
   type |-> U16(b, 11)]

SymentHdr(b) ==
  [orig_name |-> SubSeq(b, 1, 8), value |-> U32(b, 9), scnum |-> U16(b, 13),
   type |-> U16(b, 15), sclass |-> U8(b, 17), numaux |-> U8(b, 18)]

\* SecHdr.name
SecName(s) == RStrip(s.orig_name)

\* a name test that looks at the first byte only
SymNameFirstByte(s) ==
  IF s.orig_name[1] = 0 THEN None ELSE RStrip(s.orig_name)

\* SymentHdr.name: None when the first word of the name field is zero
SymName(s) ==
  IF U32(s.orig_name, 1) = W0 THEN None ELSE RStrip(s.orig_name)

\* SymentHdr.offset: -1 when the first word of the name field is not zero
SymOffset(s) ==
  IF U32(s.orig_name, 1) # W0 THEN WInt(-1) ELSE U32(s.orig_name, 5)

(***************************************************************************)
(* Coff.readstruct and Coff.__init__, one step per record read             *)
(***************************************************************************)
\* readstruct without its length check: a short read is zero-filled
ReadStructPadded(f, pos, len) ==
  LET hdr == ReadBytes(f, pos, WInt(len))
  IN  [ok |-> TRUE, hdr |-> hdr \o [i \in 1..(len - Len(hdr)) |-> 0],
       pos |-> Advance(pos, hdr)]

\* Coff.readstruct: the bytes read, the record when they are all there
ReadStruct(f, pos, len) ==
  LET hdr == ReadBytes(f, pos, WInt(len))
  IN  [ok |-> Len(hdr) = len, hdr |-> hdr, pos |-> Advance(pos, hdr)]

\* relocsecs: (name, relptr, nreloc) of the sections with relptr != 0
RECURSIVE RelocSecs(_)
RelocSecs(secs) ==
  IF secs = <<>> THEN <<>>
  ELSE LET s == Head(secs)
           rest == RelocSecs(Tail(secs))
       IN  IF s.relptr # W0
           THEN <<[name |-> SecName(s), relptr |-> s.relptr,
                   nreloc |-> s.nreloc]>> \o rest
           ELSE rest

\* range(n) builds the whole list before the first record is read: what it
\* may do depends on the host's memory once the list is large, and a 32-bit
\* build refuses a length that is no C long
RangeOutcomes(n) ==
  IF n.hi = 0 THEN {"ok"}
  ELSE IF n.hi < 32768 THEN {"ok", "MemoryError"}
       ELSE {"ok", "MemoryError", "OverflowError"}

\* d[k] = v of a dictionary kept as a function
DictPut(d, k, v) ==
  [x \in (DOMAIN d) \cup {k} |-> IF x = k THEN v ELSE d[x]]

EmptyDict == [x \in {} |-> <<>>]

fileVars == <<file, cache, inkey>>
apiVars == <<call, ret>>
drvVars == <<queue, idx, out, sink>>
strVars == <<baseoff, nstrs, strings>>
relVars == <<rsi, rcur, reloc>>

\* an exception leaves __init__: no container is bound
Raise(e, pos) ==
  /\ pc' = "error"
  /\ err' = e
  /\ cursor' = pos

ReadFileHdr ==
  /\ pc = "filehdr"
  /\ LET r == ReadStruct(file, cursor, FileHdrLen)
     IN  IF ~r.ok
         THEN /\ Raise("EOFError", r.pos)
              /\ UNCHANGED filehdr
         ELSE /\ filehdr' = FileHdr(r.hdr)
              /\ cursor' = r.pos
              /\ pc' = IF filehdr'.opthdr # 0 THEN "opthdr" ELSE "sechdr"
              /\ UNCHANGED err
  /\ UNCHANGED <<fileVars, opthdr, sechdr, relVars, symbols, strVars, apiVars,
                 drvVars>>

ReadOptHdr ==
  /\ pc = "opthdr"
  /\ LET r == ReadStruct(file, cursor, OptHdrLen)
     IN  IF ~r.ok
         THEN /\ Raise("EOFError", r.pos)
              /\ UNCHANGED opthdr
         ELSE /\ opthdr' = OptHdr(r.hdr)
              /\ cursor' = r.pos
              /\ pc' = "sechdr"
              /\ UNCHANGED err
  /\ UNCHANGED <<fileVars, filehdr, sechdr, relVars, symbols, strVars, apiVars,
                 drvVars>>

\* one turn of the list comprehension that fills self.sechdr
ReadSecHdr ==
  /\ pc = "sechdr"
  /\ IF Len(sechdr) < filehdr.nscns
     THEN LET r == ReadStruct(file, cursor, SecHdrLen)
          IN  IF ~r.ok
              THEN /\ Raise("EOFError", r.pos)
                   /\ UNCHANGED sechdr
              ELSE /\ sechdr' = Append(sechdr, SecHdr(r.hdr))
                   /\ cursor' = r.pos
                   /\ UNCHANGED <<pc, err>>
     ELSE /\ pc' = "reloc"
          /\ UNCHANGED <<sechdr, cursor, err>>
  /\ UNCHANGED <<fileVars, filehdr, opthdr, relVars, symbols, strVars, apiVars,
                 drvVars>>

\* the head of "for rs in relocsecs": seek to the section's relocations, or,
\* after the last one, seek to the symbol table
SeekReloc ==
  /\ pc = "reloc"
  /\ LET rs == RelocSecs(sechdr)
     IN  IF rsi <= Len(rs)
         THEN /\ cursor' = rs[rsi].relptr
              /\ rcur' = <<>>
              /\ pc' = "relocent"
         ELSE /\ cursor' = filehdr.symptr
              /\ pc' = "symbols"
              /\ UNCHANGED rcur
  /\ UNCHANGED <<fileVars, err, filehdr, opthdr, sechdr, rsi, reloc, symbols,
                 strVars, apiVars, drvVars>>

\* one turn of the list comprehension that fills self.reloc[rs[0]]
ReadReloc ==
  /\ pc = "relocent"
  /\ LET rs == RelocSecs(sechdr)[rsi]
     IN  \E o \in (IF rcur = <<>> THEN RangeOutcomes(rs.nreloc) ELSE {"ok"}) :
           IF o # "ok"
           THEN /\ Raise(o, cursor)
                /\ UNCHANGED <<rcur, rsi, reloc>>
           ELSE IF WLess(WInt(Len(rcur)), rs.nreloc)
           THEN LET r == ReadStruct(file, cursor, RelocHdrLen)
                IN  IF ~r.ok
                    THEN /\ Raise("EOFError", r.pos)
                         /\ UNCHANGED <<rcur, rsi, reloc>>
                    ELSE /\ rcur' = Append(rcur, RelocHdr(r.hdr))
                         /\ cursor' = r.pos
                         /\ UNCHANGED <<pc, err, rsi, reloc>>
           ELSE /\ reloc' = DictPut(reloc, rs.name, rcur)
                /\ rsi' = rsi + 1
                /\ pc' = "reloc"
                /\ UNCHANGED <<rcur, cursor, err>>
  /\ UNCHANGED <<fileVars, filehdr, opthdr, sechdr, symbols, strVars, apiVars,
                 drvVars>>

\* one turn of the list comprehension that fills self.symbols
ReadSymbol ==
  /\ pc = "symbols"
  /\ \E o \in (IF symbols = <<>> THEN RangeOutcomes(filehdr.nsyms)
               ELSE {"ok"}) :
       IF o # "ok"
       THEN /\ Raise(o, cursor)
            /\ UNCHANGED symbols
       ELSE IF WLess(WInt(Len(symbols)), filehdr.nsyms)
       THEN LET r == ReadStruct(file, cursor, SymentHdrLen)
            IN  IF ~r.ok
                THEN /\ Raise("EOFError", r.pos)
                     /\ UNCHANGED symbols
                ELSE /\ symbols' = Append(symbols, SymentHdr(r.hdr))
                     /\ cursor' = r.pos
                     /\ UNCHANGED <<pc, err>>
       ELSE /\ pc' = "strlen"
            /\ UNCHANGED <<symbols, cursor, err>>
  /\ UNCHANGED <<fileVars, filehdr, opthdr, sechdr, relVars, strVars, apiVars,
                 drvVars>>

\* baseoff = self.f.tell(); nstrs = struct.unpack('I', self.f.read(4))[0]
ReadStrLen ==
  /\ pc = "strlen"
  /\ LET b == ReadBytes(file, cursor, WInt(4))
     IN  IF Len(b) # 4
         THEN /\ Raise("struct.error", Advance(cursor, b))
              /\ UNCHANGED <<nstrs, strings>>
         ELSE /\ nstrs' = U32(b, 1)
              /\ strings' = <<>>
              /\ cursor' = Advance(cursor, b)
              /\ pc' = "strtab"
              /\ UNCHANGED err
  /\ baseoff' = cursor
  /\ UNCHANGED <<fileVars, filehdr, opthdr, sechdr, relVars, symbols, apiVars,
                 drvVars>>

\* the inner loop: single bytes are read and appended to s up to a null
\* byte, which is read and left out, or up to the end of the file, where
\* read(1) returns nothing
ReadString(f, pos, s) ==
  IF WLeq(WInt(Len(f)), pos) THEN [s |-> s, pos |-> pos]
  ELSE LET start == WSmall(pos)
           nuls == {k \in (start + 1)..Len(f) : f[k] = 0}
           stop == IF nuls = {} THEN Len(f) + 1
                   ELSE CHOOSE k \in nuls : \A j \in nuls : k <= j
       IN  [s |-> s \o SubSeq(f, start + 1, stop - 1),
            pos |-> WInt(IF nuls = {} THEN Len(f) ELSE stop)]

\* offsets counted from the byte after the length field
StrOffAfterLength(pos, base) == WSub(pos, WAdd(base, WInt(4)))

\* off = self.f.tell() - baseoff
StrOff(pos, base) == WSub(pos, base)


\* a bound of the model: the scan stops being followed after this many entries
MaxStrings == 4

\* one turn of the "while True" loop that fills self.strings
ScanString ==
  /\ pc = "strtab"
  /\ LET off == StrOff(cursor, baseoff)
     IN  IF WLeq(nstrs, off)
         THEN /\ pc' = "parsed"
              /\ UNCHANGED <<strings, cursor>>
         ELSE /\ Len(strings) < MaxStrings
              /\ LET r == ReadString(file, cursor, <<>>)
                 IN  /\ strings' = Append(strings, <<off, r.s>>)
                     /\ cursor' = r.pos
              /\ UNCHANGED pc
  /\ UNCHANGED <<fileVars, err, filehdr, opthdr, sechdr, relVars, symbols,
                 baseoff, nstrs, apiVars, drvVars>>

(***************************************************************************)
(* Coff.sectiondata and Coff.symboldata                                    *)
(***************************************************************************)
\* a seek relative to the current position (whence 1)
SeekCur(pos, off) == WAdd(pos, off)

\* self.f.seek(off, 0): the position the file object is left at
Seek(pos, off) == off

\* what an accessor call did: kind is "bytes", "None", "IndexError",
\* "IOError", "MemoryError" or "OverflowError"; from is the position the call found the file at, seek the
\* position it moved to, n the size it asked read() for, data what it
\* returned, pos the position it left
Result(kind, from, seek, n, data, pos) ==
  [kind |-> kind, from |-> from, seek |-> seek, n |-> n, data |-> data,
   pos |-> pos]

\* Coff.sectiondata: every result the call may have, the file object
\* seeing one of the contents views
RECURSIVE SectionDataOp(_, _, _, _)
SectionDataOp(views, pos, secs, sname) ==
  IF secs = <<>> THEN {Result("None", pos, None, None, <<>>, pos)}
  ELSE LET s == Head(secs)
       IN  IF SecName(s) = sname
           THEN LET at == Seek(pos, s.scnptr)
                IN  {Result(IF x.err = "ok" THEN "bytes" ELSE x.err, pos, at,
                            s.size, x.data, x.pos) :
                       x \in Read(views, at, s.size)}
           ELSE SectionDataOp(views, pos, Tail(secs), sname)

\* lst[i] of a Python list: a negative index counts from the end
ListIndex(lst, i) ==
  IF 0 <= i /\ i < Len(lst) THEN [ok |-> TRUE, val |-> lst[i + 1]]
  ELSE IF i < 0 /\ -i <= Len(lst)
       THEN [ok |-> TRUE, val |-> lst[Len(lst) + i + 1]]
       ELSE [ok |-> FALSE, val |-> None]

FuncType == 4

Sentinel == [hi |-> 65535, lo |-> 65535]

\* the loop without "if smb.type != 4: continue"
RECURSIVE NextSymbAnyType(_, _, _)
NextSymbAnyType(syms, symbol, nextsymb) ==
  IF syms = <<>> THEN nextsymb
  ELSE LET smb == Head(syms)
       IN  IF WLess(symbol.value, smb.value) /\ WLess(smb.value, nextsymb)
           THEN NextSymbAnyType(Tail(syms), symbol, smb.value)
           ELSE NextSymbAnyType(Tail(syms), symbol, nextsymb)

\* the loop over self.symbols that lowers nextsymb
RECURSIVE NextSymb(_, _, _)
NextSymb(syms, symbol, nextsymb) ==
  IF syms = <<>> THEN nextsymb
  ELSE LET smb == Head(syms)
       IN  IF smb.type # FuncType
           THEN NextSymb(Tail(syms), symbol, nextsymb)
           ELSE IF WLess(symbol.value, smb.value) /\ WLess(smb.value, nextsymb)
                THEN NextSymb(Tail(syms), symbol, smb.value)
                ELSE NextSymb(Tail(syms), symbol, nextsymb)

\* Coff.symboldata: every result the call may have
SymbolDataOp(views, pos, secs, syms, symbol) ==
  LET sec == ListIndex(secs, symbol.scnum - 1)
  IN  IF ~sec.ok THEN {Result("IndexError", pos, None, None, <<>>, pos)}
      ELSE LET off == WSub(WAdd(sec.val.scnptr, symbol.value), sec.val.vaddr)
           IN  IF WLess(off, W0)
               THEN {Result("IOError", pos, off, None, <<>>, pos)}
               ELSE LET at == Seek(pos, off)
                        n == WSub(NextSymb(syms, symbol, Sentinel),
                                  symbol.value)
                    IN  {Result(IF x.err = "ok" THEN "bytes" ELSE x.err, pos,
                                at, n, x.data, x.pos) :
                           x \in Read(views, at, n)}

\* before any accessor call
NoCall == [op |-> "none", arg |-> <<>>]

NoResult == Result("none", W0, None, None, <<>>, W0)

parsedVars == <<filehdr, opthdr, sechdr, relVars, symbols, strVars>>

\* a section name no parsed section has
NoSuchName == <<63>>

\* the contents a read of self.f may see: the file as it is now, or as it
\* was when the buffer of the file object was filled
Views(disk) == {disk, cache}

CallSectionData ==
  /\ pc = "parsed"
  /\ \E sname \in {SecName(sechdr[i]) : i \in 1..Len(sechdr)} \cup {NoSuchName} :
       \E r \in SectionDataOp(Views(file), cursor, sechdr, sname) :
           /\ call' = [op |-> "sectiondata", arg |-> sname]
           /\ ret' = r
           /\ cursor' = r.pos
  /\ UNCHANGED <<fileVars, pc, err, parsedVars, drvVars>>

CallSymbolData ==
  /\ pc = "parsed"
  /\ \E i \in 1..Len(symbols) :
       \E r \in SymbolDataOp(Views(file), cursor, sechdr, symbols, symbols[i]) :
           /\ call' = [op |-> "symboldata", arg |-> symbols[i]]
           /\ ret' = r
           /\ cursor' = r.pos
  /\ UNCHANGED <<fileVars, pc, err, parsedVars, drvVars>>

(***************************************************************************)
(* The extraction driver (module level)                                    *)
(***************************************************************************)
CodeSection == 2

\* the filter without "and s.scnum == 2"
RECURSIVE SelectedAnySection(_)
SelectedAnySection(syms) ==
  IF syms = <<>> THEN <<>>
  ELSE IF Head(syms).type = 4
       THEN <<Head(syms)>> \o SelectedAnySection(Tail(syms))
       ELSE SelectedAnySection(Tail(syms))

\* [s for s in coff.symbols if s.type == 4 and s.scnum == 2]
RECURSIVE Selected(_)
Selected(syms) ==
  IF syms = <<>> THEN <<>>
  ELSE IF Head(syms).type = FuncType /\ Head(syms).scnum = CodeSection
       THEN <<Head(syms)>> \o Selected(Tail(syms))
       ELSE Selected(Tail(syms))

\* sorted(..., key=itemgetter(1)): stable, ascending by value
RECURSIVE InsertByValue(_, _)
InsertByValue(sorted, s) ==
  IF sorted = <<>> THEN <<s>>
  ELSE IF WLess(s.value, Head(sorted).value)
       THEN <<s>> \o sorted
       ELSE <<Head(sorted)>> \o InsertByValue(Tail(sorted), s)

RECURSIVE SortedByValue(_)
SortedByValue(syms) ==
  IF syms = <<>> THEN <<>>
  ELSE InsertByValue(SortedByValue(SubSeq(syms, 1, Len(syms) - 1)),
                     syms[Len(syms)])

\* for off, st in coff.strings: if off == s.offset: name = st
RECURSIVE Lookup(_, _, _)
Lookup(strs, offset, name) ==
  IF strs = <<>> THEN name
  ELSE Lookup(Tail(strs), offset,
              IF Head(strs)[1] = offset THEN Head(strs)[2] ELSE name)

\* the name before the placeholder is considered
ResolveName(s, strs) ==
  IF SymName(s) # None THEN SymName(s) ELSE Lookup(strs, SymOffset(s), None)

\* '%i' % n
RECURSIVE Decimal(_)
Decimal(n) ==
  IF n < 10 THEN <<48 + n>> ELSE Decimal(n \div 10) \o <<48 + (n % 10)>>

\* 'unknown%i' % (idx)
Placeholder(n) == <<117, 110, 107, 110, 111, 119, 110>> \o Decimal(n)

\* a counter that counts every symbol
NextIdxAlways(n, resolved) == n + 1

\* the counter after one symbol: idx += 1 only under "if name is None"
NextIdx(n, resolved) == IF resolved = None THEN n + 1 ELSE n

\* the components of a path, split at '/'
Split(path) ==
  LET cuts == {0, Len(path) + 1} \cup {k \in 1..Len(path) : path[k] = 47}
      Cut(i) == CHOOSE c \in cuts : Cardinality({d \in cuts : d < c}) = i - 1
  IN  [i \in 1..(Cardinality(cuts) - 1) |->
         SubSeq(path, Cut(i) + 1, Cut(i + 1) - 1)]

\* "func", the output directory, and ".."
Func == <<102, 117, 110, 99>>

DotDot == <<46, 46>>

\* the longest file name and the longest path the host takes
NameMax == 255
PathMax == 4096

\* a directory, as the components that lead to it from the working directory
\* once "." and "name/.." are dropped (symbolic links are left out), and the
\* outcome of a walk through a directory that does not exist
Dir(p) == [ok |-> TRUE, path |-> p]

Missing == [ok |-> FALSE, path |-> <<>>]

\* the working directory or one of its ancestors
IsUp(p) == \A i \in 1..Len(p) : p[i] = DotDot

\* the directories a path component may lead to from directory loc.  func/
\* holds no directory; what the working directory and the directories
\* outside it hold is not known: a name there may be a directory or not, and
\* in an ancestor of the working directory it may be the way back down; the
\* root is its own parent.
StepDir(loc, c) ==
  IF ~loc.ok \/ c = <<>> \/ c = <<46>> THEN {loc}
  ELSE LET p == loc.path
       IN  IF c = DotDot
           THEN (IF p # <<>> /\ p[Len(p)] # DotDot
                 THEN {Dir(SubSeq(p, 1, Len(p) - 1))}
                 ELSE {Dir(Append(p, DotDot)), Dir(p)})
           ELSE IF p = <<Func>> THEN {Missing}
           ELSE IF p = <<>> /\ c = Func THEN {Dir(<<Func>>)}
           ELSE IF p # <<>> /\ IsUp(p)
                THEN {Dir(SubSeq(p, 1, Len(p) - 1)), Dir(Append(p, c)), Missing}
                ELSE {Dir(Append(p, c)), Missing}

RECURSIVE WalkDirs(_, _)
WalkDirs(comps, locs) ==
  IF comps = <<>> THEN locs
  ELSE WalkDirs(Tail(comps), UNION {StepDir(l, Head(comps)) : l \in locs})

\* '/'.join(comps)
RECURSIVE Join(_)
Join(comps) ==
  IF Len(comps) = 1 THEN comps[1]
  ELSE comps[1] \o <<47>> \o Join(Tail(comps))

\* open(..., 'w') of the file last of directory d: a file of func/ is keyed
\* by its name there, any other file by its path from func/
OpenIn(d, last) ==
  IF ~d.ok \/ (d.path = <<>> /\ last = Func)
  THEN {[err |-> "IOError", key |-> None]}
  ELSE IF d.path = <<Func>> THEN {[err |-> "", key |-> last]}
  ELSE {[err |-> "", key |-> Join(<<DotDot>> \o d.path \o <<last>>)],
        [err |-> "IOError", key |-> None]}

\* open('func/' + name, 'w'): the exception it may raise ("" for none) and
\* the file it opens.  A name with a null byte is refused; a path that is
\* too long or has too long a component, that ends in '/', '.' or '..' or
\* that goes through a directory that does not exist is an IOError; the file
\* opened is the same whatever the spelling of the path; outside func/ the
\* outcome depends on what is there.
OpenOutcomes(name) ==
  IF \E k \in 1..Len(name) : name[k] = 0
  THEN {[err |-> "TypeError", key |-> None]}
  ELSE LET comps == Split(name)
           last == comps[Len(comps)]
           dirs == WalkDirs(SubSeq(comps, 1, Len(comps) - 1), {Dir(<<Func>>)})
       IN  IF \/ \E i \in 1..Len(comps) : Len(comps[i]) > NameMax
              \/ Len(Func) + 1 + Len(name) >= PathMax
              \/ last \in {<<>>, <<46>>, DotDot}
           THEN {[err |-> "IOError", key |-> None]}
           ELSE UNION {OpenIn(d, last) : d \in dirs}

DriverStart ==
  /\ pc = "parsed"
  /\ pc' = "driver"
  /\ queue' = SortedByValue(Selected(symbols))
  /\ idx' = 1
  /\ UNCHANGED <<fileVars, cursor, err, parsedVars, apiVars, out, sink>>

\* one turn of "for s in symbols": the name, open (which truncates the file
\* it opens, the input file when that is the one), symboldata, write, close
DriverStep ==
  /\ pc = "driver"
  /\ IF queue = <<>>
     THEN /\ pc' = "finished"
          /\ UNCHANGED <<queue, idx, out, sink, cursor, err, apiVars, file>>
     ELSE LET s == Head(queue)
              resolved == ResolveName(s, strings)
              name == IF resolved = None THEN Placeholder(idx) ELSE resolved
          IN  /\ idx' = NextIdx(idx, resolved)
              /\ queue' = Tail(queue)
              /\ \E o \in OpenOutcomes(name) :
                   IF o.err # ""
                   THEN /\ out' = Append(out,
                                    [sym |-> s, name |-> name, key |-> None,
                                     seek |-> None, n |-> None])
                        /\ pc' = "crashed"
                        /\ err' = o.err
                        /\ UNCHANGED <<sink, cursor, apiVars, file>>
                   ELSE LET disk == IF o.key = inkey THEN <<>> ELSE file
                        IN  \E r \in SymbolDataOp(Views(disk), cursor, sechdr,
                                                  symbols, s) :
                              /\ out' = Append(out,
                                          [sym |-> s, name |-> name,
                                           key |-> o.key, seek |-> r.seek,
                                           n |-> r.n])
                              /\ call' = [op |-> "symboldata", arg |-> s]
                              /\ ret' = r
                              /\ cursor' = r.pos
                              /\ sink' = DictPut(sink, o.key, r.data)
                              /\ file' = IF o.key = inkey THEN r.data ELSE file
                              /\ IF r.kind = "bytes"
                                 THEN UNCHANGED <<pc, err>>
                                 ELSE /\ pc' = "crashed"
                                      /\ err' = r.kind
  /\ UNCHANGED <<parsedVars, cache, inkey>>

(***************************************************************************)
(* The input files.  A file is laid out as the source reads it: file       *)
(* header, optional header, section headers, then filler bytes (the raw    *)
(* data and relocation entries of the sections) up to symptr, the symbol   *)
(* table, and the string table; it may be cut short anywhere.              *)
(***************************************************************************)
LE16(n) == <<n % 256, n \div 256>>

LE32(w) == LE16(w.lo) \o LE16(w.hi)

RECURSIVE Zeros(_)
Zeros(n) == IF n <= 0 THEN <<>> ELSE <<0>> \o Zeros(n - 1)

Pad8(name) == name \o Zeros(8 - Len(name))

RECURSIVE Concat(_)
Concat(ss) == IF ss = <<>> THEN <<>> ELSE Head(ss) \o Concat(Tail(ss))

EncFileHdr(nscns, symptr, nsyms, opt) ==
  LE16(194) \o LE16(nscns) \o LE32(W0) \o LE32(symptr) \o LE32(nsyms)
    \o LE16(opt) \o LE16(0) \o LE16(151)

EncOptHdr ==
  LE16(264) \o LE16(1) \o LE32(WInt(12)) \o LE32(WInt(2)) \o LE32(W0)
    \o LE32(WInt(16)) \o LE32(WInt(16)) \o LE32(WInt(256))

EncSecHdr(sec) ==
  Pad8(sec.name) \o LE32(sec.vaddr) \o LE32(sec.vaddr) \o LE32(sec.size)
    \o LE32(sec.scnptr) \o LE32(sec.relptr) \o LE32(W0) \o LE32(sec.nreloc)
    \o LE32(W0) \o LE32(W0) \o LE16(0) \o LE16(0)

EncSyment(sym) ==
  sym.raw \o LE32(sym.value) \o LE16(sym.scnum) \o LE16(sym.type)
    \o <<2, 0>>

\* the raw name field of a symbol named inline, and of one named by offset
Inline(name) == Pad8(name)

Indirect(off) == <<0, 0, 0, 0>> \o LE32(WInt(off))

\* a file whose header announces nsyms symbols and that holds syms
ImageN(opt, secs, syms, nsyms, symptr, strtab) ==
  LET head == EncFileHdr(Len(secs), WInt(symptr), nsyms, opt)
                \o (IF opt # 0 THEN EncOptHdr ELSE <<>>)
                \o Concat([i \in 1..Len(secs) |-> EncSecHdr(secs[i])])
      fill == [i \in 1..(symptr - Len(head)) |-> (Len(head) + i - 1) % 256]
  IN  head \o fill \o Concat([i \in 1..Len(syms) |-> EncSyment(syms[i])])
        \o strtab

Image(opt, secs, syms, symptr, strtab) ==
  ImageN(opt, secs, syms, WInt(Len(syms)), symptr, strtab)

\* the file without its last k bytes
CutTail(f, k) == SubSeq(f, 1, Len(f) - Min(k, Len(f)))

Sec(name, vaddr, size, scnptr, relptr, nreloc) ==
  [name |-> name, vaddr |-> WInt(vaddr), size |-> WInt(size),
   scnptr |-> WInt(scnptr), relptr |-> WInt(relptr), nreloc |-> WInt(nreloc)]

Sym(raw, value, scnum, type) ==
  [raw |-> raw, value |-> WInt(value), scnum |-> scnum, type |-> type]

\* ".data" and ".text"
NameData == <<46, 100, 97, 116, 97>>
NameText == <<46, 116, 101, 120, 116>>

SecData == Sec(NameData, 256, 2, 146, 146, 1)
SecText == Sec(NameText, 16, 12, 148, 0, 0)

SecChoices == {<<>>, <<SecText>>, <<SecData, SecText>>}

\* the symbols a table is drawn from: "f", one named by the string table,
\* two with no string at their offset, a data symbol with a name of eight
\* bytes ("unknown1"), and a function of the undefined section whose name
\* field starts with a null byte
SymChoices ==
  { Sym(Inline(<<102>>), 16, 2, 4),
    Sym(Indirect(4), 24, 2, 4),
    Sym(Indirect(99), 18, 2, 4),
    Sym(Indirect(5), 17, 2, 4),
    Sym(<<117, 110, 107, 110, 111, 119, 110, 49>>, 19, 1, 0),
    Sym(Inline(<<0, 104>>), 22, 0, 4) }

\* bounds of the model: symbols per table, bytes cut off the end
MaxSyms == 3
MaxCut == 13

SymTables ==
  {t \in UNION {[1..n -> SymChoices] : n \in 0..MaxSyms} :
     \A i, j \in 1..Len(t) : i # j => t[i] # t[j]}

\* foo NUL bar NUL NUL NUL
FooBar == <<102, 111, 111, 0, 98, 97, 114, 0, 0, 0>>

StrTab(len, bytes) == LE32(WInt(len)) \o bytes

StrChoices ==
  { StrTab(10, FooBar), StrTab(14, FooBar), StrTab(20, FooBar),
    StrTab(4, <<>>), StrTab(0, <<>>), StrTab(6, <<97, 98>>) }

\* whole files: every symbol table with every section table
ExtractFiles ==
  {Image(0, secs, syms, 160, StrTab(10, FooBar)) :
     secs \in SecChoices, syms \in SymTables}

\* files with every string table, with and without an optional header, cut
\* short by a few bytes or in the middle of an earlier record
ParseTables ==
  { <<>>,
    <<Sym(Indirect(12), 16, 2, 4)>>,
    <<Sym(Indirect(12), 16, 2, 4),
      Sym(Inline(<<109, 97, 105, 110>>), 20, 2, 4)>> }

ParseFiles ==
  {CutTail(Image(opt, secs, syms, 160, str), k) :
     opt \in {0, OptHdrLen}, secs \in {<<>>, <<SecData, SecText>>},
     syms \in ParseTables, str \in StrChoices,
     k \in (0..MaxCut) \cup {20, 40, 60, 100, 150, 170, 200}}

\* one section (vaddr 0x1000, scnptr 0x200, size 0x100) and two function
\* symbols at 0x1000 and 0x1050, in that section or numbered 2
OneSectionFiles ==
  {Image(0, <<Sec(NameText, 4096, 256, 512, 0, 0)>>,
         <<Sym(Inline(<<102>>), 4096, n, 4), Sym(Inline(<<103>>), 4176, n, 4)>>,
         768, StrTab(4, <<>>)) : n \in {1, 2}}

\* names the driver opens: "f", "./f", "a/b", ".", "f/", a name with a null
\* byte, "main", and by offset "main", "../x" and "../../c/func/f" of the
\* string table
NameChoices ==
  { Inline(<<102>>), Inline(<<46, 47, 102>>), Inline(<<97, 47, 98>>),
    Inline(<<46>>), Inline(<<102, 47>>), Inline(<<0, 104>>),
    Inline(<<109, 97, 105, 110>>), Indirect(4), Indirect(9), Indirect(14) }

\* main NUL ../x NUL ../../c/func/f NUL
MainTab ==
  StrTab(29, <<109, 97, 105, 110, 0, 46, 46, 47, 120, 0,
               46, 46, 47, 46, 46, 47, 99, 47, 102, 117, 110, 99, 47, 102, 0>>)

NameFiles ==
  {Image(0, <<SecData, SecText>>, <<Sym(a, 16, 2, 4), Sym(b, 20, 2, 4)>>,
         160, MainTab) : a \in NameChoices, b \in NameChoices}

\* a symbol named by a string of NameMax + 1 bytes
LongNameFiles ==
  {Image(0, <<SecData, SecText>>, <<Sym(Indirect(4), 16, 2, 4)>>, 160,
         StrTab(NameMax + 6, [i \in 1..(NameMax + 1) |-> 97] \o <<0>>))}

Large == [hi |-> 65535, lo |-> 65535]

\* a section of 0xffffffff bytes
BigSectionFiles ==
  {Image(0, <<[SecText EXCEPT !.size = Large]>>, <<>>, 160, StrTab(4, <<>>))}

\* counts too large for the file: nsyms and nreloc of 0xffffffff and 0x10000
CountFiles ==
  {ImageN(0, <<>>, <<Sym(Inline(<<102>>), 16, 2, 4)>>, n, 160, StrTab(4, <<>>)) :
     n \in {Large, [hi |-> 1, lo |-> 0]}}
  \cup
  {Image(0, <<[SecData EXCEPT !.relptr = p, !.nreloc = n]>>, <<>>, 160,
         StrTab(4, <<>>)) :
     p \in {Large, WInt(146)}, n \in {Large, [hi |-> 1, lo |-> 0]}}

Init ==
  /\ file \in ExtractFiles \cup ParseFiles \cup OneSectionFiles
                \cup NameFiles \cup CountFiles \cup LongNameFiles
                \cup BigSectionFiles
  /\ cache = file
  /\ inkey \in (IF file \in NameFiles THEN {None, <<102>>} ELSE {None})
  /\ cursor = W0
  /\ pc = "filehdr"
  /\ err = ""
  /\ filehdr = None
  /\ opthdr = None
  /\ sechdr = <<>>
  /\ rsi = 1
  /\ rcur = <<>>
  /\ reloc = EmptyDict
  /\ symbols = <<>>
  /\ baseoff = W0
  /\ nstrs = W0
  /\ strings = <<>>
  /\ call = NoCall
  /\ ret = NoResult
  /\ queue = <<>>
  /\ idx = 1
  /\ out = <<>>
  /\ sink = EmptyDict

Next ==
  \/ ReadFileHdr
  \/ ReadOptHdr
  \/ ReadSecHdr
  \/ SeekReloc
  \/ ReadReloc
  \/ ReadSymbol
  \/ ReadStrLen
  \/ ScanString
  \/ CallSectionData
  \/ CallSymbolData
  \/ DriverStart
  \/ DriverStep

Spec == Init /\ [][Next]_vars


(***************************************************************************)
(* Properties                                                              *)
(***************************************************************************)
\* __init__ has returned a container
Returned == pc \in {"parsed", "driver", "finished", "crashed"}

IsSymbolData == call.op = "symboldata"

\* the last call reached its read: it returned bytes, or read() raised
AskedRead == ret.kind \in {"bytes", "MemoryError", "OverflowError"}

\* the values of the function-typed entries of the whole table above s
HigherFuncs(s) ==
  {symbols[i].value :
     i \in {j \in 1..Len(symbols) :
              symbols[j].type = 4 /\ WLess(s.value, symbols[j].value)}}

Boundary(s) ==
  IF HigherFuncs(s) = {} THEN [hi |-> 65535, lo |-> 65535]
  ELSE CHOOSE v \in HigherFuncs(s) : \A w \in HigherFuncs(s) : WLeq(v, w)

\* C1: whenever symboldata(s) reads, it asks for B - s.value bytes, B the
\* least value of the type-4 entries of the whole table above s.value, and
\* 0xffffffff when there is none; entries of another type do not count.
C1_SpanLength ==
  (IsSymbolData /\ AskedRead) =>
    ret.n = WSub(Boundary(call.arg), call.arg.value)

\* C1 witness: a read for a symbol with two function symbols above it, the
\* lower one later in the table and in another section than the symbol's
C1_Witness ==
  /\ IsSymbolData
  /\ ret.kind = "bytes"
  /\ Cardinality(HigherFuncs(call.arg)) >= 2
  /\ \E i, j \in 1..Len(symbols) :
       /\ i < j
       /\ symbols[i].type = 4 /\ symbols[j].type = 4
       /\ WLess(symbols[j].value, symbols[i].value)
       /\ symbols[j].value = Boundary(call.arg)
       /\ symbols[j].scnum # call.arg.scnum
  /\ ret.n = WInt(6)

\* C2: symboldata of a symbol whose section number is 0, or greater than
\* the number of parsed sections, fails with a range error and returns no
\* bytes.
C2_RangeError ==
  (IsSymbolData /\ (call.arg.scnum = 0 \/ call.arg.scnum > Len(sechdr))) =>
    ret.kind = "IndexError"

\* the string table of the example: length 10, then foo NUL bar NUL NUL NUL
IsFooBarTable ==
  /\ nstrs = WInt(10)
  /\ WSmall(baseoff) + 14 <= Len(cache)
  /\ SubSeq(cache, WSmall(baseoff) + 5, WSmall(baseoff) + 14) = FooBar

\* C3 as claimed: offsets count from the byte after the length field, so a
\* first string is at offset 0, and the example yields (0,"foo"), (4,"bar").
C3_OffsetsAfterLengthField ==
  pc = "parsed" =>
    /\ strings # <<>> => strings[1][1] = W0
    /\ IsFooBarTable =>
         strings = << <<W0, <<102, 111, 111>> >>, <<WInt(4), <<98, 97, 114>> >> >>

\* C3 as amended: offsets count from the first byte of the length field, so
\* a first string is at offset 4 and every entry is the string found at
\* baseoff + offset of the file parsed; the example yields (4,"foo"), (8,"bar") and the scan
\* stops with the running offset at 12.
C3_OffsetsFromLengthField ==
  (pc = "strtab" \/ Returned) =>
    /\ strings # <<>> => strings[1][1] = WInt(4)
    /\ \A i \in 1..Len(strings) :
         LET at == WSmall(WAdd(baseoff, strings[i][1]))
         IN  /\ at <= Len(cache)
             /\ at + Len(strings[i][2]) <= Len(cache)
             /\ SubSeq(cache, at + 1, at + Len(strings[i][2])) = strings[i][2]
    /\ (pc = "parsed" /\ IsFooBarTable) =>
         /\ strings = << <<WInt(4), <<102, 111, 111>> >>,
                         <<WInt(8), <<98, 97, 114>> >> >>
         /\ call = NoCall => WSub(cursor, baseoff) = WInt(12)

\* C3 witness: the example table has been scanned
C3_Witness ==
  /\ pc = "parsed"
  /\ call = NoCall
  /\ IsFooBarTable
  /\ Len(strings) = 2

\* the container of the end-to-end example: one section (vaddr 0x1000,
\* scnptr 0x200, size 0x100), function symbols at 0x1000 and 0x1050 in it
IsOneSectionContainer ==
  /\ Returned
  /\ Len(sechdr) = 1
  /\ sechdr[1].vaddr = WInt(4096)
  /\ sechdr[1].scnptr = WInt(512)
  /\ sechdr[1].size = WInt(256)
  /\ Len(symbols) = 2
  /\ \A i \in 1..2 : symbols[i].type = 4 /\ symbols[i].scnum = 1
  /\ symbols[1].value = WInt(4096)
  /\ symbols[2].value = WInt(4176)

\* C4 as claimed: the driver run on that container extracts two spans, 0x50
\* bytes from file offset 0x200 and 0xffffffff - 0x1050 bytes from 0x250.
C4_TwoSpansExtracted ==
  (IsOneSectionContainer /\ pc = "finished") =>
    /\ Len(out) = 2
    /\ out[1].seek = WInt(512) /\ out[1].n = WInt(80)
    /\ out[2].seek = WInt(592)
    /\ out[2].n = WSub([hi |-> 65535, lo |-> 65535], WInt(4176))

\* C4 as amended: on that container the driver selects nothing (it takes
\* section number 2 only), so it extracts no span and writes no artifact;
\* symboldata called on the two symbols asks for 0x50 bytes at file offset
\* 0x200 and for 0xffffffff - 0x1050 bytes at file offset 0x250.
C4_NothingExtracted ==
  IsOneSectionContainer =>
    /\ pc \in {"driver", "finished", "crashed"} =>
         queue = <<>> /\ out = <<>> /\ sink = EmptyDict /\ pc # "crashed"
    /\ (IsSymbolData /\ call.arg = symbols[1]) =>
         /\ ret.kind = "bytes"
         /\ ret.seek = WInt(512) /\ ret.n = WInt(80)
    /\ (IsSymbolData /\ call.arg = symbols[2]) =>
         /\ AskedRead
         /\ ret.seek = WInt(592)
         /\ ret.n = WSub([hi |-> 65535, lo |-> 65535], WInt(4176))

\* C4 witness: the driver has finished on that container after symboldata
\* read the first symbol's 0x50 bytes
C4_Witness ==
  /\ IsOneSectionContainer
  /\ pc = "finished"
  /\ IsSymbolData
  /\ call.arg = symbols[1]
  /\ Len(ret.data) = 80

\* the bytes left in the file from the cursor on
Avail == IF WLeq(WInt(Len(file)), cursor) THEN 0 ELSE Len(file) - WSmall(cursor)

\* the width of the record the next step of __init__ decodes, 0 when none
Due ==
  CASE pc = "filehdr" -> 22
    [] pc = "opthdr" -> 28
    [] pc = "sechdr" /\ Len(sechdr) < filehdr.nscns -> 48
    [] pc = "relocent"
         /\ WLess(WInt(Len(rcur)), RelocSecs(sechdr)[rsi].nreloc) -> 12
    [] pc = "symbols" /\ WLess(WInt(Len(symbols)), filehdr.nsyms) -> 18
    [] OTHER -> 0

\* C5: a record decode that finds fewer bytes than the record's width ends
\* construction with an error there, after an error nothing more happens
\* (no container is returned), and a returned container holds exactly
\* nscns section headers and nsyms symbol entries.
C5_NoPartialContainer ==
  [][/\ (Due > 0 /\ Avail < Due) => pc' = "error"
     /\ pc # "error"
     /\ Returned' =>
          /\ Len(sechdr') = filehdr'.nscns
          /\ WInt(Len(symbols')) = filehdr'.nsyms]_vars

\* C5 witness: the file ended inside the second symbol entry, after both
\* section headers and one symbol were decoded
C5_Witness ==
  /\ pc = "error"
  /\ err = "EOFError"
  /\ Len(sechdr) = 2
  /\ Len(symbols) = 1
  /\ filehdr.nsyms = WInt(2)

FirstWordZero(s) == \A k \in 1..4 : s.orig_name[k] = 0

\* the raw field without its trailing null bytes
IsStripped(name, raw) ==
  /\ Len(name) <= Len(raw)
  /\ name = SubSeq(raw, 1, Len(name))
  /\ name # <<>> => name[Len(name)] # 0
  /\ \A k \in (Len(name) + 1)..Len(raw) : raw[k] = 0

\* C6: for every symbol entry, when the first 4 bytes of the name field are
\* zero the name is None and the offset is the second word, otherwise the
\* name is the field without its trailing nulls and the offset is -1; so a
\* symbol has an inline name or a string-table offset, never both or none.
C6_NameOrOffset ==
  \A i \in 1..Len(symbols) :
    LET s == symbols[i]
        raw == s.orig_name
    IN  /\ FirstWordZero(s) =>
             /\ SymName(s) = None
             /\ SymOffset(s) = [hi |-> raw[7] + 256 * raw[8],
                                lo |-> raw[5] + 256 * raw[6]]
        /\ ~FirstWordZero(s) =>
             /\ SymName(s) # None
             /\ IsStripped(SymName(s), raw)
             /\ SymOffset(s) = WInt(-1)
        /\ (SymName(s) # None) # (SymOffset(s) # WInt(-1))

\* C6 witness: a table with a symbol named by offset and one named inline
\* whose field starts with a null byte
C6_Witness ==
  /\ \E i \in 1..Len(symbols) :
       FirstWordZero(symbols[i]) /\ SymOffset(symbols[i]) = WInt(99)
  /\ \E i \in 1..Len(symbols) :
       symbols[i].orig_name[1] = 0 /\ ~FirstWordZero(symbols[i])

\* no inline name and no string at the symbol's offset
Unresolved(s) ==
  /\ FirstWordZero(s)
  /\ \A i \in 1..Len(strings) : strings[i][1] # U32(s.orig_name, 5)

\* how many of the first k symbols the driver processed are unresolved
UnresolvedUpTo(k) ==
  Cardinality({i \in 1..k : Unresolved(out[i].sym)})

\* C7: the placeholder counter starts at 1; the k-th unresolved symbol in
\* processing order is named by placeholder k, and the counter is 1 plus
\* the number of placeholders assigned, so a resolved symbol leaves it as
\* it was.
C7_PlaceholderCounter ==
  pc \in {"driver", "finished", "crashed"} =>
    /\ idx = 1 + UnresolvedUpTo(Len(out))
    /\ \A i \in 1..Len(out) :
         Unresolved(out[i].sym) =>
           out[i].name = Placeholder(UnresolvedUpTo(i))

\* C7 witness: the driver finished three symbols, the first resolved, the
\* second and third named unknown1 and unknown2
C7_Witness ==
  /\ pc = "finished"
  /\ Len(out) = 3
  /\ ~Unresolved(out[1].sym)
  /\ out[2].name = Placeholder(1)
  /\ out[3].name = Placeholder(2)
  /\ idx = 3

\* the span of symbol s in the file that was parsed
Span(s) ==
  (CHOOSE r \in SymbolDataOp({cache}, W0, sechdr, symbols, s) :
     r.kind \notin {"MemoryError", "OverflowError"}).data

\* C8: when the driver has processed all selected symbols, the sink holds
\* as many artifacts as symbols were selected, each holding the span of the
\* symbol it was written for.
C8_OneArtifactPerSymbol ==
  pc = "finished" =>
    /\ Cardinality(DOMAIN sink) = Len(Selected(symbols))
    /\ \A i \in 1..Len(out) : sink[out[i].key] = Span(out[i].sym)

\* the last accessor call made again with the file position at p
CallAt(p) ==
  IF call.op = "sectiondata"
  THEN SectionDataOp(Views(file), p, sechdr, call.arg)
  ELSE SymbolDataOp(Views(file), p, sechdr, symbols, call.arg)

Outcome(r) == [kind |-> r.kind, data |-> r.data]

\* what that call may return (bytes, None or an exception) from position p
OutcomesAt(p) == {Outcome(r) : r \in CallAt(p)}

\* C9: on a parsed container, what a sectiondata or symboldata call may
\* return is the same from every file position (the start, the end of the
\* parsed file, the position the call found), what it did return is one of
\* these, and no step after parsing changes the parsed headers,
\* relocations, symbols or strings.
C9_Stateless ==
  /\ [](call # NoCall =>
          \A p \in {W0, WInt(Len(cache)), ret.from} :
            /\ Outcome(ret) \in OutcomesAt(p)
            /\ OutcomesAt(p) = OutcomesAt(ret.from))
  /\ [][(pc \in {"parsed", "driver"}) => UNCHANGED parsedVars]_vars

\* C9 witness: a call that returned bytes found the file where an earlier
\* accessor call had left it (before the symbol table), not where it seeks
C9_Witness ==
  /\ pc = "parsed"
  /\ call # NoCall
  /\ ret.kind = "bytes"
  /\ ret.data # <<>>
  /\ ret.from # ret.seek
  /\ WLess(ret.from, filehdr.symptr)
  /\ WLess(W0, ret.from)

\* C10: the string-table scan stops after finitely many steps.  The loop's
\* next turn is decided by the file, nstrs and the file position alone, so
\* it stops exactly when every turn that stays in the loop moves the file
\* position forward; a turn that leaves it in place repeats for ever.
C10_ScanTerminates ==
  [][(pc = "strtab" /\ pc' = "strtab") => WLess(cursor, cursor')]_vars

====
